---- MODULE Spec2Model ----
(***************************************************************************)
(* A model of arrowcopypaste.py: the Note predicates, the tempo and notes  *)
(* encoders, the Ascii85 text wrapper, and the two decoders as step        *)
(* machines (one step per loop iteration of the source).                   *)
(*                                                                         *)
(* Representation.                                                         *)
(*   bytes objects   sequences of integers 0..255                          *)
(*   str             sequences of character codes                          *)
(*   (tick, value)   the tuple <<tick, value>>                             *)
(*   float           its IEEE-754 fields [sign, exp, hi, lo], hi and lo    *)
(*                   being the upper and lower 26 bits of the fraction     *)
(*   Note            the record [start, end, column, special]              *)
(*   an exception    the record [exc, args, line]: class, args, and the    *)
(*                   source line of the raise statement                    *)
(* TLC's integers are 32 bits wide, so a 32-bit word is carried as two     *)
(* 16-bit halves wherever the source computes on one.                      *)
(* A loop over a list that may be longer than a block (254 entries) is     *)
(* evaluated by bisecting its index range: the same left-to-right fold,    *)
(* at logarithmic evaluation depth.                                        *)
(***************************************************************************)
EXTENDS Integers, Sequences, FiniteSets, TLC

VARIABLES
    pc,         \* the position of the running call
    in_bpms,    \* tempo_to_clipboard_data's argument bpms
    in_stops,   \* tempo_to_clipboard_data's argument stops
    in_notes,   \* notes_to_clipboard_data's argument notes
    in_value,   \* pack_vlc's argument value
    text,       \* the encoded str handed to a decoder
    data,       \* the decoder's bytes after a85decode
    offset,     \* the decoder's read cursor
    bpms,       \* clipboard_data_to_tempo's result list bpms
    stops,      \* clipboard_data_to_tempo's result list stops
    notes,      \* clipboard_data_to_notes's result list notes
    count,      \* the decoder's local count
    type,       \* clipboard_data_to_tempo's local type
    idx,        \* completed iterations of the running for loop
    cur,        \* the note being read: is_long_format, column, start, end
    vlc,        \* unpack_vlc's locals value, num_bytes and its caller
    err,        \* the exception raised, if any
    cut         \* whether the payload was truncated before decoding

vars == <<pc, in_bpms, in_stops, in_notes, in_value, text, data, offset,
          bpms, stops, notes, count, type, idx, cur, vlc, err, cut>>

----------------------------------------------------------------------------
(* Constants of the source *)

\* 'ArrowVortex:tempo:'
TEMPO_MAGIC ==
    <<65, 114, 114, 111, 119, 86, 111, 114, 116, 101, 120, 58,
      116, 101, 109, 112, 111, 58>>

\* 'ArrowVortex:notes:'
NOTES_MAGIC ==
    <<65, 114, 114, 111, 119, 86, 111, 114, 116, 101, 120, 58,
      110, 111, 116, 101, 115, 58>>

\* the block size of range(0, len(...), 254) and of the slice [i:i+254]
ChunkSize == 254

----------------------------------------------------------------------------
(* Sequences *)

Min(a, b) == IF a < b THEN a ELSE b

\* s[lo:hi] of Python, 0-based and half-open, clipped to the sequence
Slice(s, lo, hi) == SubSeq(s, Min(lo, Len(s)) + 1, Min(hi, Len(s)))

\* s.startswith(p)
StartsWith(s, p) == Len(s) >= Len(p) /\ SubSeq(s, 1, Len(p)) = p

RECURSIVE JoinRange(_, _, _)
JoinRange(parts, lo, hi) ==
    IF lo > hi THEN <<>>
    ELSE IF lo = hi THEN parts[lo]
    ELSE LET mid == (lo + hi) \div 2
         IN JoinRange(parts, lo, mid) \o JoinRange(parts, mid + 1, hi)

\* b''.join(parts)
Join(parts) == JoinRange(parts, 1, Len(parts))

----------------------------------------------------------------------------
(* Exceptions *)

NoError == [exc |-> "", args |-> <<>>, line |-> 0]

Raise(exc, args, line) == [exc |-> exc, args |-> args, line |-> line]

\* What an except clause sees of an exception: its class and its args.
Visible(e) == [exc |-> e.exc, args |-> e.args]

----------------------------------------------------------------------------
(* struct: the fixed-width little-endian codecs *)

\* whether struct.pack('<B', v) accepts v ("ubyte format requires 0 <= number <= 255")
pack_B_ok(v) == v \in 0..255

\* struct.pack('<B', v)
pack_B(v) == <<v>>

\* struct.pack('<I', v): four bytes, least significant first
pack_I(v) ==
    <<v % 256, (v \div 256) % 256, (v \div 65536) % 256, (v \div 16777216) % 256>>

\* struct.pack('<d', v): sign, 11 exponent bits and 52 fraction bits, least
\* significant byte first
pack_d(v) ==
    <<v.lo % 256,
      (v.lo \div 256) % 256,
      (v.lo \div 65536) % 256,
      (v.hi % 64) * 4 + (v.lo \div 16777216),
      (v.hi \div 64) % 256,
      (v.hi \div 16384) % 256,
      (v.exp % 16) * 16 + (v.hi \div 4194304),
      v.sign * 128 + (v.exp \div 16)>>

\* struct.calcsize(format)
calcsize(format) ==
    CASE format = "<B" -> 1
      [] format = "<I" -> 4
      [] format = "<d" -> 8

\* struct.unpack_from('<B', buf, off)[0]
unpack_from_B(buf, off) == buf[off + 1]

\* struct.unpack_from('<I', buf, off)[0]
unpack_from_I(buf, off) ==
    buf[off + 1] + buf[off + 2] * 256 + buf[off + 3] * 65536 + buf[off + 4] * 16777216

\* struct.unpack_from('<d', buf, off)[0]
unpack_from_d(buf, off) ==
    [sign |-> buf[off + 8] \div 128,
     exp  |-> (buf[off + 8] % 128) * 16 + (buf[off + 7] \div 16),
     hi   |-> (buf[off + 7] % 16) * 4194304 + buf[off + 6] * 16384
              + buf[off + 5] * 64 + (buf[off + 4] \div 4),
     lo   |-> (buf[off + 4] % 4) * 16777216 + buf[off + 3] * 65536
              + buf[off + 2] * 256 + buf[off + 1]]

\* unpack's bounds test: "if offset + size > len(data): raise ValueError()"
unpack_short(buf, off, format) == off + calcsize(format) > Len(buf)

\* unpack without its "offset += size"
unpack_advance_mut(off, format) == off

\* unpack's "offset += size"
unpack_advance(off, format) == off + calcsize(format)

----------------------------------------------------------------------------
(* class Note *)

Note(start, end, column, special) ==
    [start |-> start, end |-> end, column |-> column, special |-> special]

\* is_step with "special == -1" for "special <= 0"
is_step_mut(n) == n.special = -1 /\ n.start = n.end

is_step(n) == n.special <= 0 /\ n.start = n.end

is_mine(n) == n.special = 1 /\ n.start = n.end

is_lift(n) == n.special = 3 /\ n.start = n.end

is_fake(n) == n.special = 4 /\ n.start = n.end

is_hold(n) == n.special = 0 /\ n.start # n.end

\* is_roll without its test of special
is_roll_mut(n) == n.start # n.end

is_roll(n) == n.special # 0 /\ n.start # n.end

make_step(tick, column) == Note(tick, tick, column, -1)

make_mine(tick, column) == Note(tick, tick, column, 1)

make_lift(tick, column) == Note(tick, tick, column, 3)

make_fake(tick, column) == Note(tick, tick, column, 4)

make_hold(start, end, column) == Note(start, end, column, 0)

make_roll(start, end, column) == Note(start, end, column, 2)

----------------------------------------------------------------------------
(* base64.a85encode and base64.a85decode, as the two call sites use them  *)
(* (foldspaces, wrapcol, pad and adobe at their defaults)                  *)

\* a big-endian 32-bit word ('!I') of four bytes, as its 16-bit halves
Word(b1, b2, b3, b4) == [hi |-> b1 * 256 + b2, lo |-> b3 * 256 + b4]

\* word // 85 and word % 85
DivMod85(w) ==
    LET t == (w.hi % 85) * 65536 + w.lo
    IN [q |-> [hi |-> w.hi \div 85, lo |-> t \div 85], r |-> t % 85]

\* the five radix-85 digits of a word, most significant first:
\* chars2[word // 614125] + chars2[word // 85 % 7225] + chars[word % 85]
Digits85(w) ==
    LET d5 == DivMod85(w)
        d4 == DivMod85(d5.q)
        d3 == DivMod85(d4.q)
        d2 == DivMod85(d3.q)
        d1 == DivMod85(d2.q)
    IN <<d1.r, d2.r, d3.r, d4.r, d5.r>>

\* _85encode called with foldnuls=False
EncodeWord_mut(w) == LET d == Digits85(w) IN [j \in 1..5 |-> d[j] + 33]

\* one element of chunks, before the fix-up of the last one: b'z' for a zero
\* word (foldnuls), else five characters from '!' (33)
EncodeWord(w) ==
    IF w.hi = 0 /\ w.lo = 0 THEN <<122>>
    ELSE LET d == Digits85(w) IN [j \in 1..5 |-> d[j] + 33]

\* _85encode(b, ..., pad=False, foldnuls=True, foldspaces=False)
a85encode(b) ==
    LET padding == (4 - (Len(b) % 4)) % 4
        at(i)   == IF i <= Len(b) THEN b[i] ELSE 0
        nwords  == (Len(b) + padding) \div 4
        word(k) == Word(at(4 * k - 3), at(4 * k - 2), at(4 * k - 1), at(4 * k))
        chunk(k) ==
            LET c == EncodeWord(word(k))
            IN IF k = nwords /\ padding > 0
               THEN LET full == IF c = <<122>> THEN <<33, 33, 33, 33, 33>> ELSE c
                    IN SubSeq(full, 1, 5 - padding)
               ELSE c
    IN Join([k \in 1..nwords |-> chunk(k)])

\* acc = 85 * acc + (x - 33) over the five characters of curr, as 16-bit halves
Acc85(curr) ==
    LET step(a, x) ==
            LET t == a.lo * 85 + (x - 33)
            IN [hi |-> a.hi * 85 + (t \div 65536), lo |-> t % 65536]
    IN step(step(step(step(step([hi |-> 0, lo |-> 0],
            curr[1]), curr[2]), curr[3]), curr[4]), curr[5])

\* packI(acc): struct.pack('!I', acc)
packI(a) == <<a.hi \div 256, a.hi % 256, a.lo \div 256, a.lo % 256>>

\* ignorechars = b' \t\n\r\v'
A85_IGNORE == {32, 9, 10, 13, 11}

\* the body of a85decode's loop "for x in b + b'u' * 4" for one character x;
\* st holds curr, decoded (joined) and the exception raised so far
A85Step(st, x) ==
    IF st.err # NoError THEN st
    ELSE IF 33 <= x /\ x <= 117 THEN
        LET c == Append(st.curr, x)
        IN IF Len(c) = 5
           THEN LET acc == Acc85(c)
                IN IF acc.hi >= 65536
                   THEN [st EXCEPT !.err = Raise("ValueError", <<"Ascii85 overflow">>, 0)]
                   ELSE [st EXCEPT !.curr = <<>>, !.decoded = @ \o packI(acc)]
           ELSE [st EXCEPT !.curr = c]
    ELSE IF x = 122 THEN
        IF st.curr # <<>>
        THEN [st EXCEPT !.err = Raise("ValueError", <<"z inside Ascii85 5-tuple">>, 0)]
        ELSE [st EXCEPT !.decoded = @ \o <<0, 0, 0, 0>>]
    ELSE IF x \in A85_IGNORE THEN st
    ELSE [st EXCEPT !.err = Raise("ValueError", <<"Non-Ascii85 digit found">>, 0)]

RECURSIVE A85Loop(_, _, _, _)
A85Loop(st, b, lo, hi) ==
    IF lo > hi THEN st
    ELSE IF lo = hi THEN A85Step(st, b[lo])
    ELSE LET mid  == (lo + hi) \div 2
             left == A85Loop(st, b, lo, mid)
         IN \* a raise ends the loop
            IF left.err # NoError THEN left ELSE A85Loop(left, b, mid + 1, hi)

\* base64.a85decode(b): [err, bytes]
a85decode(b) ==
    LET padded  == b \o <<117, 117, 117, 117>>
        st      == A85Loop([curr |-> <<>>, decoded |-> <<>>, err |-> NoError],
                           padded, 1, Len(padded))
        padding == 4 - Len(st.curr)
    IN IF st.err # NoError THEN [err |-> st.err, bytes |-> <<>>]
       ELSE [err |-> NoError,
             bytes |-> IF padding # 0
                       THEN SubSeq(st.decoded, 1, Len(st.decoded) - padding)
                       ELSE st.decoded]

----------------------------------------------------------------------------
(* tempo_to_clipboard_data *)

\* a sort that puts an item before the items of its tick
InsertByTick_mut(acc, x) ==
    LET k == Cardinality({j \in 1..Len(acc) : acc[j][1] < x[1]})
    IN SubSeq(acc, 1, k) \o <<x>> \o SubSeq(acc, k + 1, Len(acc))

\* the place of item x in the sorted list acc: after every item whose tick
\* is not larger (sorted is stable)
InsertByTick(acc, x) ==
    LET k == Cardinality({j \in 1..Len(acc) : acc[j][1] <= x[1]})
    IN SubSeq(acc, 1, k) \o <<x>> \o SubSeq(acc, k + 1, Len(acc))

RECURSIVE SortLoop(_, _, _, _)
SortLoop(acc, list, lo, hi) ==
    IF lo > hi THEN acc
    ELSE IF lo = hi THEN InsertByTick(acc, list[lo])
    ELSE LET mid  == (lo + hi) \div 2
             left == SortLoop(acc, list, lo, mid)
         IN \* the test makes TLC evaluate the left half before the right one
            IF Len(left) >= 0 THEN SortLoop(left, list, mid + 1, hi) ELSE left

\* sorted(list, key=lambda x: x[0])
sorted_by_tick(list) == SortLoop(<<>>, list, 1, Len(list))

\* what pack_tempo_block(data, type) appends to blocks
pack_tempo_block(items, ty) ==
    [k \in 1..(2 + 2 * Len(items)) |->
        IF k = 1 THEN pack_B(Len(items))
        ELSE IF k = 2 THEN pack_B(ty)
        ELSE IF k % 2 = 1 THEN pack_I(items[(k - 1) \div 2][1])
        ELSE pack_d(items[(k - 2) \div 2][2])]

\* the slice list[i:i+255]
tempo_chunk_mut(list, i) == Slice(list, i, i + ChunkSize + 1)

\* the slice list[i:i+254] of the chunk loops
tempo_chunk(list, i) == Slice(list, i, i + ChunkSize)

RECURSIVE tempo_blocks(_, _, _)
\* "for i in range(i, len(list), 254): pack_tempo_block(list[i:i+254], type)"
tempo_blocks(list, ty, i) ==
    IF i >= Len(list) THEN <<>>
    ELSE pack_tempo_block(tempo_chunk(list, i), ty)
         \o tempo_blocks(list, ty, i + ChunkSize)

\* blocks.append(struct.pack('<B', 0)) after each of the two chunk loops
tempo_payload_mut(b, s) ==
    Join(tempo_blocks(sorted_by_tick(b), 0, 0)
         \o <<pack_B(0)>>
         \o tempo_blocks(sorted_by_tick(s), 1, 0)
         \o <<pack_B(0)>>)

\* the bytes b''.join(blocks) of tempo_to_clipboard_data
tempo_payload(b, s) ==
    Join(tempo_blocks(sorted_by_tick(b), 0, 0)
         \o tempo_blocks(sorted_by_tick(s), 1, 0)
         \o <<pack_B(0)>>)

tempo_to_clipboard_data(b, s) == TEMPO_MAGIC \o a85encode(tempo_payload(b, s))

----------------------------------------------------------------------------
(* notes_to_clipboard_data *)

RECURSIVE pack_vlc_mut(_)
\* pack_vlc with "value >> 8" for "value >> 7"
pack_vlc_mut(value) ==
    LET byte == value % 128
        rest == value \div 256
    IN IF rest = 0 THEN <<byte>>
       ELSE <<byte + 128>> \o pack_vlc_mut(rest)

RECURSIVE pack_vlc(_)
pack_vlc(value) ==
    LET byte == value % 128
        rest == value \div 128
    IN IF rest = 0 THEN <<byte>>
       ELSE <<byte + 128>> \o pack_vlc(rest)

\* note.column & 0x7f
ColumnShort(column) == column % 128

\* note.column | 0x80
ColumnLong(column) == IF (column \div 128) % 2 = 1 THEN column ELSE column + 128

\* whether the loop body raises struct.error for this note
note_raises(n) ==
    IF is_step(n) THEN ~pack_B_ok(ColumnShort(n.column))
    ELSE ~pack_B_ok(ColumnLong(n.column)) \/ ~pack_B_ok(n.special)

\* what the loop body appends to data for one note
note_record(n) ==
    IF is_step(n)
    THEN pack_B(ColumnShort(n.column)) \o pack_vlc(n.start)
    ELSE pack_B(ColumnLong(n.column)) \o pack_vlc(n.start) \o pack_vlc(n.end)
         \o pack_B(n.special)

RECURSIVE note_records(_, _)
note_records(ns, i) ==
    IF i > Len(ns) THEN <<>>
    ELSE note_record(ns[i]) \o note_records(ns, i + 1)

notes_raises(ns) == \E i \in 1..Len(ns) : note_raises(ns[i])

\* the bytes b''.join(data) of notes_to_clipboard_data
notes_payload(ns) == pack_B(0) \o pack_vlc(Len(ns)) \o note_records(ns, 1)

notes_to_clipboard_data(ns) == NOTES_MAGIC \o a85encode(notes_payload(ns))

----------------------------------------------------------------------------
(* Bounds and inputs *)

\* longest bpms and stops list of the exhaustive tempo inputs
MaxTempo == 2

\* longest notes list of the exhaustive notes inputs
MaxNotes == 2

\* longest bpms, stops and notes list whose payload is truncated
MaxTrunc == 1

\* longest byte buffer handed to the notes decoder as is
MaxBuf == 5

\* most pieces of a byte buffer handed to the tempo decoder as is
MaxTok == 4

\* pack_vlc is applied to 0..MaxSmall besides the boundary values
MaxSmall == 20

SeqsUpTo(S, n) == UNION {[1..k -> S] : k \in 0..n}

\* the floats 120.0, 0.1 and 2.0
F120 == [sign |-> 0, exp |-> 1029, hi |-> 58720256, lo |-> 0]

F01 == [sign |-> 0, exp |-> 1019, hi |-> 40265318, lo |-> 26843546]

F2 == [sign |-> 0, exp |-> 1024, hi |-> 0, lo |-> 0]

TempoItems == {<<t, v>> : t \in {0, 2147483647}, v \in {F120, F01}}

\* n items whose ticks collide and descend, each with a value of its own
LongList(n) ==
    [i \in 1..n |-> <<((n - i) % 5) * 65537,
                      [sign |-> 0, exp |-> 1029, hi |-> i, lo |-> n]>>]

\* list lengths around one and two blocks of ChunkSize items
LongInputs ==
    {<<ChunkSize - 1, 0>>, <<ChunkSize, 1>>, <<0, ChunkSize + 1>>,
     <<2 * ChunkSize, ChunkSize>>, <<2 * ChunkSize + 1, 2>>}

NoteShapes == {<<0, 0, 0>>, <<0, 200, 127>>, <<16384, 16384, 127>>, <<200, 5, 3>>}

NoteValues == {Note(p[1], p[2], p[3], sp) : p \in NoteShapes, sp \in -1..4}

TruncNotes ==
    {make_step(0, 0), make_hold(0, 200, 127), make_roll(200, 16384, 3),
     make_mine(5, 1), Note(5, 5, 1, 0)}

VlcValues ==
    (0..MaxSmall)
    \cup {126, 127, 128, 129, 255, 256, 16382, 16383, 16384, 16385,
          2097151, 2097152, 268435455, 268435456, 2147483647}

\* the bytes that follow the varint in the buffer
VlcTails == {<<>>, <<0>>, <<128>>, <<1, 129>>}

NoteBytes == {0, 1, 2, 128, 129}

NoteBuffers == SeqsUpTo(NoteBytes, MaxBuf)

\* one (tick, value) entry, the first bytes of one, and one whole block
TempoEntryBytes == pack_I(48) \o pack_d(F2)

TempoTokens ==
    {<<0>>, <<1>>, <<2>>, TempoEntryBytes, SubSeq(TempoEntryBytes, 1, 5),
     <<1, 0>> \o TempoEntryBytes}

TempoBuffers == {Join(t) : t \in SeqsUpTo(TempoTokens, MaxTok)}

\* texts no encoder produces: 'z' inside a group, an overflowing group, a
\* character that is no digit, and texts without the magic
BadTexts ==
    {TEMPO_MAGIC \o <<33, 33, 122>>, NOTES_MAGIC \o <<33, 33, 122>>,
     TEMPO_MAGIC \o <<117, 117, 117, 117, 117>>,
     NOTES_MAGIC \o <<33, 118>>,
     <<>>, SubSeq(TEMPO_MAGIC, 1, 12)}

DecodeTexts ==
    {TEMPO_MAGIC \o a85encode(b) : b \in TempoBuffers}
    \cup {NOTES_MAGIC \o a85encode(b) : b \in NoteBuffers}
    \cup BadTexts

----------------------------------------------------------------------------
(* State *)

NoCur == [is_long_format |-> FALSE, column |-> 0, start |-> 0, end |-> 0]

\* unpack_vlc's locals at its entry, ret naming the call site
VlcCall(ret) == [value |-> 0, num_bytes |-> 0, ret |-> ret]

\* the locals of a decoder that has not started
DecoderIdle ==
    /\ data = <<>> /\ offset = 0
    /\ bpms = <<>> /\ stops = <<>> /\ notes = <<>>
    /\ count = 0 /\ type = 0 /\ idx = 0
    /\ cur = NoCur /\ vlc = VlcCall("") /\ err = NoError /\ cut = FALSE

inputs == <<in_bpms, in_stops, in_notes, in_value>>

tempo_locals == <<bpms, stops, type>>

notes_locals == <<notes, cur, vlc>>

----------------------------------------------------------------------------
(* The encoders, one call each *)

TempoEncode ==
    /\ pc = "tempo_encode"
    /\ text' = tempo_to_clipboard_data(in_bpms, in_stops)
    /\ pc' = "tempo_decode"
    /\ UNCHANGED <<inputs, data, offset, tempo_locals, notes_locals, count, idx, err, cut>>

NotesEncode ==
    /\ pc = "notes_encode"
    /\ IF notes_raises(in_notes)
       THEN /\ pc' = "fail"
            /\ err' = Raise("struct.error", <<"ubyte format requires 0 <= number <= 255">>, 296)
            /\ text' = text
       ELSE /\ pc' = "notes_decode"
            /\ err' = err
            /\ text' = notes_to_clipboard_data(in_notes)
    /\ UNCHANGED <<inputs, data, offset, tempo_locals, notes_locals, count, idx, cut>>

\* the caller hands the decoder a proper prefix of the payload, with the magic
Truncate ==
    /\ pc \in {"tempo_decode", "notes_decode"}
    /\ ~cut
    /\ LET magic   == IF pc = "tempo_decode" THEN TEMPO_MAGIC ELSE NOTES_MAGIC
           payload == IF pc = "tempo_decode"
                      THEN tempo_payload(in_bpms, in_stops)
                      ELSE notes_payload(in_notes)
       IN \E k \in 0..(Len(payload) - 1) :
            text' = magic \o a85encode(SubSeq(payload, 1, k))
    /\ cut' = TRUE
    /\ UNCHANGED <<pc, inputs, data, offset, tempo_locals, notes_locals, count, idx, err>>

----------------------------------------------------------------------------
(* clipboard_data_to_tempo *)

\* the final else branch taken for types above 2 only
tempo_type_unknown_mut(ty) == ty > 2

\* the test of the final else branch: type is neither 0 nor 1
tempo_type_unknown(ty) == ty # 0 /\ ty # 1

\* lines 211-228: the magic test, a85decode, and the empty result lists
TempoDecodeStart ==
    /\ pc = "tempo_decode"
    /\ LET r == a85decode(Slice(text, Len(TEMPO_MAGIC), Len(text)))
       IN IF ~StartsWith(text, TEMPO_MAGIC)
          THEN /\ pc' = "fail"
               /\ err' = Raise("ValueError", <<"Invalid data">>, 212)
               /\ data' = data
          ELSE IF r.err # NoError
          THEN /\ pc' = "fail"
               /\ err' = [r.err EXCEPT !.line = 214]
               /\ data' = data
          ELSE /\ pc' = "tempo_count"
               /\ err' = err
               /\ data' = r.bytes
    /\ offset' = 0
    /\ bpms' = <<>>
    /\ stops' = <<>>
    /\ UNCHANGED <<inputs, text, type, notes_locals, count, idx, cut>>

\* lines 231-233: the head of the while loop
TempoCount ==
    /\ pc = "tempo_count"
    /\ IF unpack_short(data, offset, "<B")
       THEN /\ pc' = "fail"
            /\ err' = Raise("ValueError", <<>>, 222)
            /\ UNCHANGED <<offset, count>>
       ELSE /\ count' = unpack_from_B(data, offset)
            /\ offset' = unpack_advance(offset, "<B")
            /\ pc' = IF count' = 0 THEN "tempo_done" ELSE "tempo_type"
            /\ err' = err
    /\ UNCHANGED <<inputs, text, data, tempo_locals, notes_locals, idx, cut>>

\* line 235, and the entry of the for loop
TempoType ==
    /\ pc = "tempo_type"
    /\ IF unpack_short(data, offset, "<B")
       THEN /\ pc' = "fail"
            /\ err' = Raise("ValueError", <<>>, 222)
            /\ UNCHANGED <<offset, type>>
       ELSE /\ type' = unpack_from_B(data, offset)
            /\ offset' = unpack_advance(offset, "<B")
            /\ pc' = "tempo_entry"
            /\ err' = err
    /\ idx' = 0
    /\ UNCHANGED <<inputs, text, data, bpms, stops, notes_locals, count, cut>>

\* lines 238-247: one iteration of "for _ in range(count)"
TempoEntry ==
    /\ pc = "tempo_entry"
    /\ LET off1  == unpack_advance(offset, "<I")
           off2  == unpack_advance(off1, "<d")
           item  == <<unpack_from_I(data, offset), unpack_from_d(data, off1)>>
       IN IF unpack_short(data, offset, "<I")
          THEN /\ pc' = "fail"
               /\ err' = Raise("ValueError", <<>>, 222)
               /\ UNCHANGED <<offset, bpms, stops, idx>>
          ELSE IF unpack_short(data, off1, "<d")
          THEN /\ pc' = "fail"
               /\ err' = Raise("ValueError", <<>>, 222)
               /\ offset' = off1
               /\ UNCHANGED <<bpms, stops, idx>>
          ELSE IF tempo_type_unknown(type)
          THEN /\ pc' = "fail"
               /\ err' = Raise("ValueError", <<>>, 247)
               /\ offset' = off2
               /\ UNCHANGED <<bpms, stops, idx>>
          ELSE /\ offset' = off2
               /\ bpms' = IF type = 0 THEN Append(bpms, item) ELSE bpms
               /\ stops' = IF type = 1 THEN Append(stops, item) ELSE stops
               /\ idx' = idx + 1
               /\ pc' = IF idx' = count THEN "tempo_count" ELSE "tempo_entry"
               /\ err' = err
    /\ UNCHANGED <<inputs, text, data, type, notes_locals, count, cut>>

----------------------------------------------------------------------------
(* clipboard_data_to_notes *)

\* unpack_vlc with "8 * num_bytes" for "7 * num_bytes"
vlc_accumulate_mut(value, byte, num_bytes) == value + (byte % 128) * (256 ^ num_bytes)

\* "value | ((byte & 0x7f) << (7 * num_bytes))": the bits set are new ones
vlc_accumulate(value, byte, num_bytes) == value + (byte % 128) * (128 ^ num_bytes)

\* "(byte & 0x80) == 0"
vlc_last(byte) == (byte \div 128) % 2 = 0

\* lines 327-354: the magic test, a85decode, and the empty result list
NotesDecodeStart ==
    /\ pc = "notes_decode"
    /\ LET r == a85decode(Slice(text, Len(NOTES_MAGIC), Len(text)))
       IN IF ~StartsWith(text, NOTES_MAGIC)
          THEN /\ pc' = "fail"
               /\ err' = Raise("ValueError", <<"Invalid data">>, 328)
               /\ data' = data
          ELSE IF r.err # NoError
          THEN /\ pc' = "fail"
               /\ err' = [r.err EXCEPT !.line = 330]
               /\ data' = data
          ELSE /\ pc' = "notes_head"
               /\ err' = err
               /\ data' = r.bytes
    /\ offset' = 0
    /\ notes' = <<>>
    /\ UNCHANGED <<inputs, text, tempo_locals, cur, vlc, count, idx, cut>>

\* line 356, and the call of unpack_vlc in line 357
NotesHead ==
    /\ pc = "notes_head"
    /\ IF unpack_short(data, offset, "<B")
       THEN /\ pc' = "fail"
            /\ err' = Raise("ValueError", <<>>, 338)
            /\ UNCHANGED <<offset, vlc>>
       ELSE /\ offset' = unpack_advance(offset, "<B")
            /\ vlc' = VlcCall("count")
            /\ pc' = "vlc"
            /\ err' = err
    /\ UNCHANGED <<inputs, text, data, tempo_locals, notes, cur, count, idx, cut>>

\* lines 360-362, and the call of unpack_vlc in line 365 or 370
NotesBits ==
    /\ pc = "notes_bits"
    /\ IF unpack_short(data, offset, "<B")
       THEN /\ pc' = "fail"
            /\ err' = Raise("ValueError", <<>>, 338)
            /\ UNCHANGED <<offset, cur, vlc>>
       ELSE LET bits == unpack_from_B(data, offset)
                long == (bits \div 128) % 2 # 0
            IN /\ offset' = unpack_advance(offset, "<B")
               /\ cur' = [NoCur EXCEPT !.is_long_format = long, !.column = bits % 128]
               /\ vlc' = VlcCall(IF long THEN "start" ELSE "short")
               /\ pc' = "vlc"
               /\ err' = err
    /\ UNCHANGED <<inputs, text, data, tempo_locals, notes, count, idx, cut>>

\* lines 348-351: one iteration of unpack_vlc's while loop and, after the
\* last one, the return to the call site
VlcStep ==
    /\ pc = "vlc"
    /\ IF unpack_short(data, offset, "<B")
       THEN /\ pc' = "fail"
            /\ err' = Raise("ValueError", <<>>, 338)
            /\ UNCHANGED <<offset, vlc, cur, notes, count, idx>>
       ELSE LET byte  == unpack_from_B(data, offset)
                last  == vlc_last(byte)
                value == vlc_accumulate(vlc.value, byte, vlc.num_bytes)
                more  == [vlc EXCEPT !.value = value, !.num_bytes = @ + 1]
            IN /\ offset' = unpack_advance(offset, "<B")
               /\ err' = err
               /\ IF ~last
                  THEN /\ vlc' = more
                       /\ pc' = "vlc"
                       /\ UNCHANGED <<cur, notes, count, idx>>
                  ELSE CASE vlc.ret = "count" ->
                              \* line 357, and the entry of the for loop
                              /\ count' = value
                              /\ idx' = 0
                              /\ vlc' = more
                              /\ pc' = IF value = 0 THEN "notes_done" ELSE "notes_bits"
                              /\ UNCHANGED <<cur, notes>>
                         [] vlc.ret = "start" ->
                              \* line 365, and the call in line 366
                              /\ cur' = [cur EXCEPT !.start = value]
                              /\ vlc' = VlcCall("end")
                              /\ pc' = "vlc"
                              /\ UNCHANGED <<notes, count, idx>>
                         [] vlc.ret = "end" ->
                              \* line 366
                              /\ cur' = [cur EXCEPT !.end = value]
                              /\ vlc' = more
                              /\ pc' = "notes_special"
                              /\ UNCHANGED <<notes, count, idx>>
                         [] vlc.ret = "short" ->
                              \* lines 369-372
                              /\ cur' = [cur EXCEPT !.start = value, !.end = value]
                              /\ notes' = Append(notes, Note(value, value, cur.column, -1))
                              /\ idx' = idx + 1
                              /\ vlc' = more
                              /\ pc' = IF idx' = count THEN "notes_done" ELSE "notes_bits"
                              /\ count' = count
                         [] vlc.ret = "alone" ->
                              \* unpack_vlc called on its own
                              /\ vlc' = more
                              /\ pc' = "vlc_done"
                              /\ UNCHANGED <<cur, notes, count, idx>>
    /\ UNCHANGED <<inputs, text, data, tempo_locals, cut>>

\* lines 367 and 372: the special byte of the long form, and the append
NotesSpecial ==
    /\ pc = "notes_special"
    /\ IF unpack_short(data, offset, "<B")
       THEN /\ pc' = "fail"
            /\ err' = Raise("ValueError", <<>>, 338)
            /\ UNCHANGED <<offset, notes, idx>>
       ELSE /\ notes' = Append(notes, Note(cur.start, cur.end, cur.column,
                                           unpack_from_B(data, offset)))
            /\ offset' = unpack_advance(offset, "<B")
            /\ idx' = idx + 1
            /\ pc' = IF idx' = count THEN "notes_done" ELSE "notes_bits"
            /\ err' = err
    /\ UNCHANGED <<inputs, text, data, tempo_locals, cur, vlc, count, cut>>

----------------------------------------------------------------------------
(* pack_vlc and unpack_vlc on their own *)

\* pack_vlc(value) written in front of the bytes already in the buffer
VlcPack ==
    /\ pc = "vlc_pack"
    /\ data' = pack_vlc(in_value) \o data
    /\ offset' = 0
    /\ vlc' = VlcCall("alone")
    /\ pc' = "vlc"
    /\ UNCHANGED <<inputs, text, tempo_locals, notes, cur, count, idx, err, cut>>

----------------------------------------------------------------------------
(* Specifications *)

Terminated == pc \in {"tempo_done", "notes_done", "vlc_done", "fail"}

TempoDecode == TempoDecodeStart \/ TempoCount \/ TempoType \/ TempoEntry

NotesDecode == NotesDecodeStart \/ NotesHead \/ NotesBits \/ VlcStep \/ NotesSpecial

\* tempo round trips: every short pair of lists, and the long ones
InitTempo ==
    /\ pc = "tempo_encode"
    /\ \/ /\ in_bpms \in SeqsUpTo(TempoItems, MaxTempo)
          /\ in_stops \in SeqsUpTo(TempoItems, MaxTempo)
       \/ \E p \in LongInputs :
             /\ in_bpms = LongList(p[1])
             /\ in_stops = LongList(p[2])
    /\ in_notes = <<>> /\ in_value = 0 /\ text = <<>>
    /\ DecoderIdle

NextTempo == TempoEncode \/ TempoDecode

SpecTempo == InitTempo /\ [][NextTempo]_vars

\* notes round trips
InitNotes ==
    /\ pc = "notes_encode"
    /\ in_notes \in SeqsUpTo(NoteValues, MaxNotes)
    /\ in_bpms = <<>> /\ in_stops = <<>> /\ in_value = 0 /\ text = <<>>
    /\ DecoderIdle

NextNotes == NotesEncode \/ NotesDecode

SpecNotes == InitNotes /\ [][NextNotes]_vars

\* the varint codec alone
InitVlc ==
    /\ pc = "vlc_pack"
    /\ in_value \in VlcValues
    /\ data \in VlcTails
    /\ in_bpms = <<>> /\ in_stops = <<>> /\ in_notes = <<>> /\ text = <<>>
    /\ offset = 0 /\ bpms = <<>> /\ stops = <<>> /\ notes = <<>>
    /\ count = 0 /\ type = 0 /\ idx = 0
    /\ cur = NoCur /\ vlc = VlcCall("") /\ err = NoError /\ cut = FALSE

NextVlc == VlcPack \/ VlcStep

SpecVlc == InitVlc /\ [][NextVlc]_vars

\* truncated payloads of both encoders
InitTrunc ==
    /\ \/ /\ pc = "tempo_encode"
          /\ in_bpms \in SeqsUpTo(TempoItems, MaxTrunc)
          /\ in_stops \in SeqsUpTo(TempoItems, MaxTrunc)
          /\ in_notes = <<>>
       \/ /\ pc = "notes_encode"
          /\ in_notes \in SeqsUpTo(TruncNotes, MaxTrunc + 1)
          /\ in_bpms = <<>> /\ in_stops = <<>>
    /\ in_value = 0 /\ text = <<>>
    /\ DecoderIdle

NextTrunc == TempoEncode \/ NotesEncode \/ Truncate \/ TempoDecode \/ NotesDecode

SpecTrunc == InitTrunc /\ [][NextTrunc]_vars

\* both decoders on texts of any content; a call runs to its return or raise
InitDecode ==
    /\ pc \in {"tempo_decode", "notes_decode"}
    /\ text \in DecodeTexts
    /\ in_bpms = <<>> /\ in_stops = <<>> /\ in_notes = <<>> /\ in_value = 0
    /\ DecoderIdle

NextDecode == TempoDecode \/ NotesDecode

\* the steps at the loop positions of the decoders
DecoderLoops ==
    TempoCount \/ TempoType \/ TempoEntry
    \/ NotesHead \/ NotesBits \/ VlcStep \/ NotesSpecial

\* a decoder that is running is not suspended for ever
SpecDecode == InitDecode /\ [][NextDecode]_vars /\ WF_vars(DecoderLoops)

----------------------------------------------------------------------------
(* Properties *)

\* ns with every point-like note of special 0 turned into special -1
AsDecoded(ns) ==
    [i \in 1..Len(ns) |->
        IF ns[i].start = ns[i].end /\ ns[i].special = 0
        THEN [ns[i] EXCEPT !.special = -1]
        ELSE ns[i]]

\* a note of special -1 that is not point-like
Unencodable(n) == n.special = -1 /\ n.start # n.end

\* C1, as amended: decoding the encoding of a list of notes returns a list
\* of the same length with the same start, end and column in the same
\* order, and the same special except that a point-like note of special 0
\* comes back with special -1; the encoder raises struct.error exactly for
\* the lists that hold a note of special -1 with start # end.
C1_RoundTripNotes ==
    /\ pc = "notes_done" => notes = AsDecoded(in_notes)
    /\ pc = "fail" =>
          /\ err.exc = "struct.error"
          /\ \E i \in 1..Len(in_notes) : Unencodable(in_notes[i])
    /\ (pc # "notes_encode" /\ \E i \in 1..Len(in_notes) : Unencodable(in_notes[i]))
          => pc = "fail"

\* C1, as claimed: every list of notes is encoded, and decoding the
\* encoding returns the list itself.
C1_RoundTripExact ==
    /\ pc = "notes_done" => notes = in_notes
    /\ pc # "fail"

\* a round trip of a step and a hold, returned as they were
C1_Witness ==
    /\ pc = "notes_done"
    /\ Len(in_notes) = 2
    /\ is_step(in_notes[1]) /\ in_notes[1].special = -1
    /\ is_hold(in_notes[2])
    /\ notes = in_notes

\* item i of list sorted stably by tick stands at this place
Rank(list, i) ==
    Cardinality({j \in 1..Len(list) :
        \/ list[j][1] < list[i][1]
        \/ list[j][1] = list[i][1] /\ j <= i})

IsStableSortByTick(out, list) ==
    /\ Len(out) = Len(list)
    /\ \A i \in 1..Len(list) : out[Rank(list, i)] = list[i]

\* C2: decoding the encoding of bpms and stops returns bpms sorted stably by
\* tick and stops sorted stably by tick, whatever the lengths and the order.
C2_RoundTripTempo ==
    /\ pc = "tempo_done" =>
          /\ IsStableSortByTick(bpms, in_bpms)
          /\ IsStableSortByTick(stops, in_stops)
    /\ pc # "fail"

\* a round trip of two blocks of stops, given unsorted and with equal ticks
C2_Witness ==
    /\ pc = "tempo_done"
    /\ Len(in_stops) = ChunkSize + 1
    /\ stops # in_stops
    /\ \E i \in 1..ChunkSize : stops[i][1] = stops[i + 1][1]

\* how many of the six predicates are true of note n
PredicateCount(n) ==
    Cardinality({k \in 1..6 :
        CASE k = 1 -> is_step(n)
          [] k = 2 -> is_mine(n)
          [] k = 3 -> is_lift(n)
          [] k = 4 -> is_fake(n)
          [] k = 5 -> is_hold(n)
          [] k = 6 -> is_roll(n)})

\* C3, as amended: at most one of the six predicates is true of a note, and
\* exactly one of every note but the point-like note of special 2, of which
\* none is true.
C3_PredicatesDisjoint ==
    pc # "notes_encode" =>
        \A i \in 1..Len(in_notes) :
            PredicateCount(in_notes[i]) =
                IF in_notes[i].special = 2 /\ in_notes[i].start = in_notes[i].end
                THEN 0 ELSE 1

\* C3, as claimed: exactly one of the six predicates is true of every note.
C3_PredicatesPartition ==
    pc # "notes_encode" =>
        \A i \in 1..Len(in_notes) : PredicateCount(in_notes[i]) = 1

\* an encoded list holding the note no predicate is true of
C3_Witness ==
    /\ pc = "notes_decode"
    /\ \E i \in 1..Len(in_notes) :
          /\ in_notes[i].special = 2
          /\ in_notes[i].start = in_notes[i].end
          /\ PredicateCount(in_notes[i]) = 0

\* C4: a decoder handed a proper prefix of an encoder's payload never returns
\* a result; it ends in the ValueError of unpack.
C4_TruncatedFails ==
    cut =>
        /\ pc \notin {"tempo_done", "notes_done"}
        /\ pc = "fail" =>
              /\ Visible(err) = [exc |-> "ValueError", args |-> <<>>]
              /\ err.line \in {222, 338}

\* a truncated tempo payload that fails after an entry was read
C4_Witness ==
    /\ cut
    /\ pc = "fail"
    /\ Len(bpms) = 1
    /\ Len(in_stops) = 1

\* a step of the for loop of a block whose type is neither 0 nor 1
UnknownTypeStep ==
    (pc = "tempo_entry" /\ type \notin {0, 1}) =>
        /\ pc' = "fail"
        /\ Visible(err') = [exc |-> "ValueError", args |-> <<>>]
        /\ Visible(err') # [exc |-> "ValueError", args |-> <<"Invalid data">>]
        /\ err'.line = IF Len(data) - offset >= 12 THEN 247 ELSE 222

\* C5, as amended: once a block header with count >= 1 and a type other than
\* 0 and 1 is read, clipboard_data_to_tempo raises and returns nothing; the
\* exception is a ValueError without arguments, raised by the type test when
\* 12 bytes or more follow the type byte and by unpack's bounds test
\* otherwise; it differs from the ValueError('Invalid data') of a missing
\* magic and not from the one of a truncated payload.
C5_UnknownTypeFails == [][UnknownTypeStep]_vars

\* C5, as claimed: a failure after such a block header is the one of the type
\* test, whatever follows the type byte, and the caller can tell it from the
\* failure of a truncated payload and from the one of a missing magic.
C5_UnknownTypeKind ==
    (pc = "fail" /\ type \in 2..255) =>
        /\ err.line = 247
        /\ Visible(err) # Visible(Raise("ValueError", <<>>, 222))
        /\ Visible(err) # Visible(Raise("ValueError", <<"Invalid data">>, 212))

\* a block of type 2 after a well-formed block, with an entry behind it
C5_Witness ==
    /\ pc = "fail"
    /\ type = 2
    /\ Len(bpms) = 1
    /\ err.line = 247

\* the complete 4-byte groups of b that hold only zero bytes
ZeroGroups(b) ==
    {k \in 1..(Len(b) \div 4) :
        b[4 * k - 3] = 0 /\ b[4 * k - 2] = 0 /\ b[4 * k - 1] = 0 /\ b[4 * k] = 0}

\* the characters of an incomplete last group
TailChars(b) == IF Len(b) % 4 = 0 THEN 0 ELSE (Len(b) % 4) + 1

\* C6, as amended: the wrapping maps every complete 4-byte group of the
\* payload to 5 characters from '!' to 'u', except a group of four zero bytes,
\* which it maps to the single character 'z'.
C6_WrapFoldsZeroGroups ==
    pc = "tempo_decode" =>
        LET body == Slice(text, Len(TEMPO_MAGIC), Len(text))
            b    == tempo_payload(in_bpms, in_stops)
            z    == Cardinality(ZeroGroups(b))
        IN /\ Len(body) = 5 * ((Len(b) \div 4) - z) + z + TailChars(b)
           /\ Cardinality({i \in 1..Len(body) : body[i] = 122}) = z
           /\ \A i \in 1..Len(body) : body[i] \in (33..117) \cup {122}

\* C6, as claimed: every complete 4-byte group, a group of four zero bytes
\* included, becomes 5 characters.
C6_WrapFiveCharsPerGroup ==
    pc = "tempo_decode" =>
        LET body == Slice(text, Len(TEMPO_MAGIC), Len(text))
            b    == tempo_payload(in_bpms, in_stops)
        IN /\ Len(body) = 5 * (Len(b) \div 4) + TailChars(b)
           /\ \A i \in 1..Len(body) : body[i] \in 33..117

\* an encoded payload with a zero group and an incomplete last group
C6_Witness ==
    /\ pc = "tempo_decode"
    /\ Len(in_bpms) = 1
    /\ ZeroGroups(tempo_payload(in_bpms, in_stops)) # {}
    /\ TailChars(tempo_payload(in_bpms, in_stops)) # 0

\* the short form and the long form of a note
ShortForm(n) == <<n.column>> \o pack_vlc(n.start)

LongForm(n) ==
    <<n.column + 128>> \o pack_vlc(n.start) \o pack_vlc(n.end) \o <<n.special>>

\* the payload of ns whose note i is written as rec[i]
NotesLayout(ns, rec) == <<0>> \o pack_vlc(Len(ns)) \o Join(rec)

\* C7, as amended: a note is written in short form if and only if it is
\* point-like with special -1 or 0; every other note of special 0..4 is
\* written in long form.
C7_ShortFormOfSteps ==
    pc = "notes_head" =>
        data = NotesLayout(in_notes,
                  [i \in 1..Len(in_notes) |->
                      IF in_notes[i].start = in_notes[i].end /\ in_notes[i].special \in {-1, 0}
                      THEN ShortForm(in_notes[i])
                      ELSE LongForm(in_notes[i])])

\* C7, as claimed: short form if and only if point-like with special -1.
C7_ShortFormOnlyMinusOne ==
    pc = "notes_head" =>
        data = NotesLayout(in_notes,
                  [i \in 1..Len(in_notes) |->
                      IF in_notes[i].start = in_notes[i].end /\ in_notes[i].special = -1
                      THEN ShortForm(in_notes[i])
                      ELSE LongForm(in_notes[i])])

\* the payload of a point-like note of special 0 and a point-like mine
C7_Witness ==
    /\ pc = "notes_head"
    /\ Len(in_notes) = 2
    /\ in_notes[1].special = 0 /\ in_notes[1].start = in_notes[1].end
    /\ is_mine(in_notes[2])

\* the bytes of a block and of the blocks of n items
BlockBytes == 2 + 12 * ChunkSize

BlocksOf(n) == (n + ChunkSize - 1) \div ChunkSize

SectionLen(n) == 2 * BlocksOf(n) + 12 * n

\* byte p (from 0) of the blocks of the sorted list, all of type ty
SectionByte(list, ty, p) ==
    LET j == p \div BlockBytes
        q == p % BlockBytes
        e == ChunkSize * j + ((q - 2) \div 12) + 1
    IN IF q = 0 THEN Min(ChunkSize, Len(list) - ChunkSize * j)
       ELSE IF q = 1 THEN ty
       ELSE (pack_I(list[e][1]) \o pack_d(list[e][2]))[((q - 2) % 12) + 1]

\* C8: the payload is the blocks of type 0 with the sorted bpms, the blocks
\* of type 1 with the sorted stops and a last byte 0; a list of n items makes
\* ceil(n / 254) blocks, all of 254 items but the last, none empty.
C8_TempoBlocks ==
    (pc = "tempo_count" /\ offset = 0) =>
        LET sb == sorted_by_tick(in_bpms)
            ss == sorted_by_tick(in_stops)
            nb == SectionLen(Len(in_bpms))
            ns == SectionLen(Len(in_stops))
        IN /\ Len(data) = nb + ns + 1
           /\ data[Len(data)] = 0
           /\ \A p \in 1..nb : data[p] = SectionByte(sb, 0, p - 1)
           /\ \A p \in 1..ns : data[nb + p] = SectionByte(ss, 1, p - 1)
           /\ \A j \in 1..BlocksOf(Len(in_bpms)) :
                 /\ data[(j - 1) * BlockBytes + 1] \in 1..ChunkSize
                 /\ j < BlocksOf(Len(in_bpms)) => data[(j - 1) * BlockBytes + 1] = ChunkSize
           /\ \A j \in 1..BlocksOf(Len(in_stops)) :
                 /\ data[nb + (j - 1) * BlockBytes + 1] \in 1..ChunkSize
                 /\ j < BlocksOf(Len(in_stops)) =>
                       data[nb + (j - 1) * BlockBytes + 1] = ChunkSize

\* the payload of three blocks of bpms and one of stops
C8_Witness ==
    /\ pc = "tempo_count" /\ offset = 0
    /\ Len(in_bpms) = 2 * ChunkSize + 1
    /\ Len(in_stops) = 2
    /\ data[2 * BlockBytes + 1] = 1

\* the value of the 7-bit groups of b, least significant first
RECURSIVE GroupsValue(_, _)
GroupsValue(b, i) ==
    IF i > Len(b) THEN 0 ELSE (b[i] % 128) + 128 * GroupsValue(b, i + 1)

\* C9: pack_vlc emits at least one byte, bit 7 set in all but the last, the
\* 7-bit groups of the value least significant first with no zero group at
\* the end, and unpack_vlc returns the value having read exactly these bytes.
C9_Varint ==
    LET b == pack_vlc(in_value)
    IN /\ Len(b) >= 1
       /\ \A i \in 1..(Len(b) - 1) : b[i] \in 128..255
       /\ b[Len(b)] \in 0..127
       /\ GroupsValue(b, 1) = in_value
       /\ Len(b) > 1 => b[Len(b)] # 0
       /\ pc # "fail"
       /\ pc \in {"vlc", "vlc_done"} => SubSeq(data, 1, Len(b)) = b
       /\ pc = "vlc_done" => vlc.value = in_value /\ offset = Len(b)

\* 16384 packed into three bytes and read back with bytes left behind it
C9_Witness ==
    /\ pc = "vlc_done"
    /\ in_value = 16384
    /\ vlc.num_bytes = 3
    /\ Len(data) = offset + 2

\* the positions a loop of a decoder iterates at
LoopPositions ==
    {"tempo_count", "tempo_type", "tempo_entry",
     "notes_head", "notes_bits", "vlc", "notes_special"}

\* a step at a loop position raises or moves the cursor on, within the buffer
LoopStepReads ==
    pc \in LoopPositions =>
        \/ pc' = "fail"
        \/ offset' > offset /\ offset' <= Len(data')

\* C10: every iteration of a decoder's loops reads at least one byte or
\* raises, the cursor never leaves the buffer, and every call returns or
\* raises in the end.
C10_DecodersTerminate ==
    /\ [][LoopStepReads]_vars
    /\ [](pc \in LoopPositions => <>Terminated)

\* a varint of continuation bytes only, read to the end of the buffer
C10_Witness ==
    /\ pc = "fail"
    /\ vlc.ret = "count"
    /\ vlc.num_bytes = MaxBuf - 1
    /\ offset = Len(data)

====
